---- MODULE Spec2Model ----
(***************************************************************************)
(* GLM_Example.py: a straight-line script that constructs a ZhipuAiClient, *)
(* submits one chat-completion request, and prints the content of the      *)
(* first choice of the response.                                           *)
(*                                                                         *)
(* The script is modelled from line 4 on, i.e. with the name ZhipuAiClient *)
(* already bound by the import on line 1.  The collaborator (the client    *)
(* class and the object it returns) is the environment: each of the two    *)
(* calls into it either returns a value or raises a fault.  Standard       *)
(* output is a text sink that accepts every str.                           *)
(*                                                                         *)
(* Python values are tagged records so that any two of them can be         *)
(* compared; a str is the sequence of its characters.                      *)
(***************************************************************************)
EXTENDS Integers, Sequences, FiniteSets

VARIABLES
    pc,        \* position of the interpreter in the script
    ctorArgs,  \* keyword arguments of each ZhipuAiClient(...) call made
    client,    \* the module-level name `client`
    sent,      \* requests submitted to client.chat.completions.create
    reply,     \* outcome of the collaborator call in progress
    response,  \* the module-level name `response`
    arg,       \* the evaluated argument of print on line 23
    stdout,    \* characters written to standard output
    uncaught,  \* the fault that reached the top level, if any
    exitCode   \* exit status of the process once it has terminated

vars == <<pc, ctorArgs, client, sent, reply, response, arg, stdout, uncaught, exitCode>>

----------------------------------------------------------------------------
(* Bounds of the collaborator's replies *)

MaxChoices == 2   \* longest choices sequence a response carries
MaxLen == 1       \* longest content string
MaxTokens == 1    \* largest usage.total_tokens

----------------------------------------------------------------------------
(* Python values *)

PyNone == [tag |-> "None"]
PyStr(s) == [tag |-> "str", chars |-> s]
Unbound == [tag |-> "unbound"]       \* a name not assigned yet
Running == [tag |-> "running"]       \* a live process has no exit status
Exited(status) == [tag |-> "exited", status |-> status]
NoReply == [tag |-> "none"]          \* no collaborator outcome pending
NoFault == [tag |-> "nofault"]

Chars == {"a", "\n"}

RECURSIVE SeqsUpTo(_, _)
SeqsUpTo(S, n) ==
    IF n = 0 THEN {<< >>}
    ELSE LET shorter == SeqsUpTo(S, n - 1)
         IN  shorter \cup {Append(s, x) : s \in {t \in shorter : Len(t) = n - 1}, x \in S}

Strings == {PyStr(s) : s \in SeqsUpTo(Chars, MaxLen)}

(* What the collaborator may hand back.  content is Optional[str]; a      *)
(* malformed choice carries no message object at all.                      *)
Contents == Strings \cup {PyNone}
Messages == {[tag |-> "message", content |-> c] : c \in Contents} \cup {PyNone}
FinishReasons == {"stop", "length"}
Choices == [message : Messages, finish_reason : FinishReasons]
Ids == {"id-1", "id-2"}
Responses ==
    [tag : {"response"},
     id : Ids,
     choices : SeqsUpTo(Choices, MaxChoices),
     usage : [total_tokens : 0..MaxTokens]]

(* Faults the collaborator signals (authentication, network, rate limit) *)
CollaboratorFaults ==
    {[kind |-> k, origin |-> "collaborator"] : k \in {"AuthFault", "NetworkFault", "RateLimitFault"}}

(* Faults the interpreter raises while evaluating line 23 *)
IndexError == [kind |-> "IndexError", origin |-> "interpreter"]
AttributeError == [kind |-> "AttributeError", origin |-> "interpreter"]

Return(v) == [tag |-> "return", value |-> v]
Raise(f) == [tag |-> "raise", fault |-> f]

----------------------------------------------------------------------------
(* Literals of the script.  The two prompts are written with their         *)
(* non-ASCII characters as \uXXXX escapes.                                 *)

Credential == "api_key literal of line 4"

(* Faulty variant: another model identifier *)
ModelId_Other == "glm-4.6"

ModelId == "glm-4.7"

SystemPrompt == "\\u4f60\\u662f\\u4e00\\u4e2a\\u6709\\u7528\\u7684AI\\u52a9\\u624b\\u3002"
UserPrompt == "\\u4f60\\u597d\\uff0c\\u8bf7\\u4ecb\\u7ecd\\u4e00\\u4e0b\\u81ea\\u5df1\\u3002"

(* Faulty variant: the temperature 1.0 *)
Temperature_One == [mantissa |-> 1, exponent |-> 0]

Temperature == [mantissa |-> 6, exponent |-> -1]    \* the decimal literal 0.6

(* Faulty variant: the user message ahead of the system message *)
RequestMessages_UserFirst ==
    << [role |-> "user", content |-> UserPrompt],
       [role |-> "system", content |-> SystemPrompt] >>

RequestMessages ==
    << [role |-> "system", content |-> SystemPrompt],
       [role |-> "user", content |-> UserPrompt] >>

ChatRequest ==
    [model |-> ModelId, messages |-> RequestMessages, temperature |-> Temperature]

ClientObject(kwargs) == [tag |-> "client", api_key |-> kwargs.api_key]

----------------------------------------------------------------------------
(* Faulty variant: an empty choices list yields the empty string instead   *)
(* of raising                                                              *)
FirstChoiceContent_Default(resp) ==
    IF Len(resp.choices) = 0 THEN Return(PyStr(<< >>))
    ELSE LET message == resp.choices[1].message
         IN  IF message = PyNone THEN Raise(AttributeError)
             ELSE Return(message.content)

(* Faulty variant: choices[-1] in place of choices[0] *)
FirstChoiceContent_Last(resp) ==
    IF Len(resp.choices) = 0 THEN Raise(IndexError)
    ELSE LET message == resp.choices[Len(resp.choices)].message
         IN  IF message = PyNone THEN Raise(AttributeError)
             ELSE Return(message.content)

(* Line 23, the expression response.choices[0].message.content:           *)
(* subscripting an empty list raises IndexError, reading an attribute of  *)
(* None raises AttributeError.                                             *)
FirstChoiceContent(resp) ==
    IF Len(resp.choices) = 0 THEN Raise(IndexError)
    ELSE LET message == resp.choices[1].message
         IN  IF message = PyNone THEN Raise(AttributeError)
             ELSE Return(message.content)

(* str(): a str is itself, None is the text None *)
Str(v) == IF v = PyNone THEN <<"N", "o", "n", "e">> ELSE v.chars

(* Faulty variant: print(x, end="") *)
PrintedText_NoNewline(v) == Str(v)

(* print(x) writes str(x) and then the default end, one newline *)
PrintedText(v) == Str(v) \o <<"\n">>

----------------------------------------------------------------------------
Init ==
    /\ pc = "line4"
    /\ ctorArgs = << >>
    /\ client = Unbound
    /\ sent = << >>
    /\ reply = NoReply
    /\ response = Unbound
    /\ arg = Unbound
    /\ stdout = << >>
    /\ uncaught = NoFault
    /\ exitCode = Running

(* Line 4: ZhipuAiClient(api_key=...) is called *)
CallConstructor ==
    /\ pc = "line4"
    /\ ctorArgs' = Append(ctorArgs, [api_key |-> Credential])
    /\ pc' = "in_constructor"
    /\ UNCHANGED <<client, sent, reply, response, arg, stdout, uncaught, exitCode>>

(* The collaborator's constructor returns a client bound to the key *)
ConstructorReturns ==
    /\ pc = "in_constructor"
    /\ reply = NoReply
    /\ reply' = Return(ClientObject(ctorArgs[Len(ctorArgs)]))
    /\ UNCHANGED <<pc, ctorArgs, client, sent, response, arg, stdout, uncaught, exitCode>>

(* The collaborator's constructor raises *)
ConstructorRaises ==
    /\ pc = "in_constructor"
    /\ reply = NoReply
    /\ \E f \in CollaboratorFaults : reply' = Raise(f)
    /\ UNCHANGED <<pc, ctorArgs, client, sent, response, arg, stdout, uncaught, exitCode>>

(* Line 4: the returned object is assigned to client *)
BindClient ==
    /\ pc = "in_constructor"
    /\ reply.tag = "return"
    /\ client' = reply.value
    /\ reply' = NoReply
    /\ pc' = "line7"
    /\ UNCHANGED <<ctorArgs, sent, response, arg, stdout, uncaught, exitCode>>

(* Faulty variant: a failed request is retried *)
PropagateFault_Retry ==
    /\ pc \in {"in_constructor", "in_create"}
    /\ reply.tag = "raise"
    /\ IF pc = "in_create"
       THEN /\ pc' = "line7"
            /\ reply' = NoReply
            /\ UNCHANGED <<uncaught, exitCode>>
       ELSE /\ uncaught' = reply.fault
            /\ exitCode' = Exited(1)
            /\ pc' = "exited"
            /\ UNCHANGED reply
    /\ UNCHANGED <<ctorArgs, client, sent, response, arg, stdout>>

(* Faulty variant: the fault is caught, a default text is printed and the  *)
(* script ends normally                                                    *)
PropagateFault_Swallow ==
    /\ pc \in {"in_constructor", "in_create"}
    /\ reply.tag = "raise"
    /\ stdout' = stdout \o <<"\n">>
    /\ pc' = "end"
    /\ UNCHANGED <<ctorArgs, client, sent, reply, response, arg, uncaught, exitCode>>

(* No try/except anywhere: a fault raised by a call unwinds to the top     *)
(* level and the interpreter exits with status 1.                          *)
PropagateFault ==
    /\ pc \in {"in_constructor", "in_create"}
    /\ reply.tag = "raise"
    /\ uncaught' = reply.fault
    /\ exitCode' = Exited(1)
    /\ pc' = "exited"
    /\ UNCHANGED <<ctorArgs, client, sent, reply, response, arg, stdout>>

(* Faulty variant: a line is printed before the request is submitted *)
CallCreate_Banner ==
    /\ pc = "line7"
    /\ stdout' = stdout \o <<"\n">>
    /\ sent' = Append(sent, ChatRequest)
    /\ pc' = "in_create"
    /\ UNCHANGED <<ctorArgs, client, reply, response, arg, uncaught, exitCode>>

(* Lines 7-20: client.chat.completions.create(...) is called; the call     *)
(* blocks until the collaborator replies.                                  *)
CallCreate ==
    /\ pc = "line7"
    /\ sent' = Append(sent, ChatRequest)
    /\ pc' = "in_create"
    /\ UNCHANGED <<ctorArgs, client, reply, response, arg, stdout, uncaught, exitCode>>

(* The collaborator returns a response *)
CreateReturns ==
    /\ pc = "in_create"
    /\ reply = NoReply
    /\ \E r \in Responses : reply' = Return(r)
    /\ UNCHANGED <<pc, ctorArgs, client, sent, response, arg, stdout, uncaught, exitCode>>

(* The collaborator raises in place of returning *)
CreateRaises ==
    /\ pc = "in_create"
    /\ reply = NoReply
    /\ \E f \in CollaboratorFaults : reply' = Raise(f)
    /\ UNCHANGED <<pc, ctorArgs, client, sent, response, arg, stdout, uncaught, exitCode>>

(* Line 7: the returned object is assigned to response *)
BindResponse ==
    /\ pc = "in_create"
    /\ reply.tag = "return"
    /\ response' = reply.value
    /\ reply' = NoReply
    /\ pc' = "line23"
    /\ UNCHANGED <<ctorArgs, client, sent, arg, stdout, uncaught, exitCode>>

(* Line 23: the argument of print is evaluated and is a value *)
EvalArgument ==
    /\ pc = "line23"
    /\ FirstChoiceContent(response).tag = "return"
    /\ arg' = FirstChoiceContent(response).value
    /\ pc' = "print"
    /\ UNCHANGED <<ctorArgs, client, sent, reply, response, stdout, uncaught, exitCode>>

(* Faulty variant: the fault of line 23 is caught and the script ends      *)
(* with status 0                                                           *)
EvalArgumentFaults_ExitZero ==
    /\ pc = "line23"
    /\ FirstChoiceContent(response).tag = "raise"
    /\ exitCode' = Exited(0)
    /\ pc' = "exited"
    /\ UNCHANGED <<ctorArgs, client, sent, reply, response, arg, stdout, uncaught>>

(* Line 23: evaluating the argument raises, uncaught *)
EvalArgumentFaults ==
    /\ pc = "line23"
    /\ FirstChoiceContent(response).tag = "raise"
    /\ uncaught' = FirstChoiceContent(response).fault
    /\ exitCode' = Exited(1)
    /\ pc' = "exited"
    /\ UNCHANGED <<ctorArgs, client, sent, reply, response, arg, stdout>>

(* Line 23: print writes its argument *)
PrintArgument ==
    /\ pc = "print"
    /\ stdout' = stdout \o PrintedText(arg)
    /\ pc' = "end"
    /\ UNCHANGED <<ctorArgs, client, sent, reply, response, arg, uncaught, exitCode>>

(* End of the script: the interpreter exits with status 0 *)
ExitNormally ==
    /\ pc = "end"
    /\ exitCode' = Exited(0)
    /\ pc' = "exited"
    /\ UNCHANGED <<ctorArgs, client, sent, reply, response, arg, stdout, uncaught>>

Next ==
    \/ CallConstructor
    \/ ConstructorReturns
    \/ ConstructorRaises
    \/ BindClient
    \/ PropagateFault
    \/ CallCreate
    \/ CreateReturns
    \/ CreateRaises
    \/ BindResponse
    \/ EvalArgument
    \/ EvalArgumentFaults
    \/ PrintArgument
    \/ ExitNormally

Spec == Init /\ [][Next]_vars

----------------------------------------------------------------------------
(* Shorthands used by the properties *)

Terminated == pc = "exited"
Responded == response # Unbound

(* The response has a first choice whose message object exists *)
ReadableFirstChoice(r) ==
    /\ Len(r.choices) >= 1
    /\ r.choices[1].message # PyNone

(* ... and the content of that message is a str *)
StringFirstChoice(r) ==
    /\ ReadableFirstChoice(r)
    /\ r.choices[1].message.content # PyNone

FirstContent(r) == r.choices[1].message.content

(* The text of a content value as Python prints it *)
TextOf(c) == IF c = PyNone THEN <<"N", "o", "n", "e">> ELSE c.chars

----------------------------------------------------------------------------
(* C1: at most one chat-completion request is ever submitted, whatever the *)
(* collaborator does; none is submitted before the client exists; and a    *)
(* terminated run whose client construction succeeded submitted exactly    *)
(* one.                                                                    *)
C1_SingleRequest ==
    /\ Len(sent) <= 1
    /\ (client = Unbound => Len(sent) = 0)
    /\ (Terminated /\ client # Unbound => Len(sent) = 1)

(* the request faulted and the run ended without a second submission *)
C1_Witness ==
    /\ Terminated
    /\ client # Unbound
    /\ reply.tag = "raise"
    /\ Len(sent) = 1

(* C2: when the response's first choice has the string X as its message    *)
(* content, standard output is empty until the print and is exactly X      *)
(* followed by one newline from then on, in particular when the run ends.  *)
C2_PrintsContent ==
    (Responded /\ StringFirstChoice(response)) =>
        LET X == FirstContent(response).chars
        IN  /\ stdout \in {<< >>, X \o <<"\n">>}
            /\ (pc \in {"end", "exited"} => stdout = X \o <<"\n">>)

(* a content that itself holds a newline has been printed *)
C2_Witness ==
    /\ Terminated
    /\ Responded
    /\ StringFirstChoice(response)
    /\ FirstContent(response).chars = <<"\n">>
    /\ stdout = <<"\n", "\n">>

(* C3: every submitted request carries exactly two messages, the system    *)
(* prompt with role system first and the user prompt with role user        *)
(* second, and none with role assistant.                                   *)
C3_TwoMessages ==
    \A i \in 1..Len(sent) :
        LET m == sent[i].messages
        IN  /\ Len(m) = 2
            /\ m[1].role = "system"
            /\ m[1].content =
                  "\\u4f60\\u662f\\u4e00\\u4e2a\\u6709\\u7528\\u7684AI\\u52a9\\u624b\\u3002"
            /\ m[2].role = "user"
            /\ m[2].content =
                  "\\u4f60\\u597d\\uff0c\\u8bf7\\u4ecb\\u7ecd\\u4e00\\u4e0b\\u81ea\\u5df1\\u3002"
            /\ DOMAIN m[1] = {"role", "content"}
            /\ DOMAIN m[2] = {"role", "content"}
            /\ \A j \in 1..Len(m) : m[j].role # "assistant"

C3_Witness ==
    /\ pc = "in_create"
    /\ Len(sent) = 1
    /\ Len(sent[1].messages) = 2

(* C4: the model field of every submitted request is the string glm-4.7,   *)
(* whatever the collaborator has replied.                                  *)
C4_ModelLiteral ==
    \A i \in 1..Len(sent) : sent[i].model = "glm-4.7"

C4_Witness ==
    /\ Len(sent) = 1
    /\ Responded
    /\ sent[1].model = "glm-4.7"

(* C5: the temperature field of every submitted request is 0.6 *)
C5_Temperature ==
    \A i \in 1..Len(sent) :
        sent[i].temperature = [mantissa |-> 6, exponent |-> -1]

C5_Witness ==
    /\ Len(sent) = 1
    /\ reply = NoReply
    /\ sent[1].temperature.mantissa = 6

(* C6: once the collaborator has raised, no response is bound, the         *)
(* argument choices[0].message.content is never evaluated, nothing is      *)
(* written to standard output, and the run ends with that same fault       *)
(* uncaught.                                                               *)
C6_FaultPropagates ==
    reply.tag = "raise" =>
        /\ response = Unbound
        /\ arg = Unbound
        /\ pc \notin {"line23", "print", "end"}
        /\ stdout = << >>
        /\ uncaught \in {NoFault, reply.fault}
        /\ (Terminated => uncaught = reply.fault /\ exitCode = Exited(1))

(* the request was submitted, the collaborator raised, the run has ended *)
C6_Witness ==
    /\ Terminated
    /\ Len(sent) = 1
    /\ reply.tag = "raise"
    /\ uncaught = reply.fault

(* C7: with an empty choices sequence nothing is written to standard       *)
(* output, the print argument never gets a value, and the run ends with    *)
(* an uncaught IndexError and a nonzero exit status.                       *)
C7_EmptyChoices ==
    (Responded /\ Len(response.choices) = 0) =>
        /\ stdout = << >>
        /\ arg = Unbound
        /\ pc \in {"line23", "exited"}
        /\ (Terminated => uncaught = IndexError /\ exitCode = Exited(1))

C7_Witness ==
    /\ Terminated
    /\ Responded
    /\ Len(response.choices) = 0
    /\ uncaught = IndexError

(* C8: a run has an exit status exactly when it has terminated; the status *)
(* is 0 or 1; it is 0 iff a response with a readable first choice was      *)
(* returned and its content was written to standard output; it is nonzero  *)
(* iff a fault went uncaught, and that fault arose at client construction, *)
(* during the request, or while reading choices[0].message.content.        *)
C8_ExitOutcome ==
    /\ (Terminated <=> exitCode # Running)
    /\ Terminated =>
        /\ exitCode \in {Exited(0), Exited(1)}
        /\ (exitCode = Exited(0)) <=>
              /\ Responded
              /\ ReadableFirstChoice(response)
              /\ stdout = TextOf(FirstContent(response)) \o <<"\n">>
        /\ (exitCode # Exited(0)) <=> (uncaught # NoFault)
        /\ (uncaught # NoFault) =>
              \/ /\ client = Unbound          \* at client construction
                 /\ Len(sent) = 0
                 /\ uncaught \in CollaboratorFaults
              \/ /\ client # Unbound          \* during the request
                 /\ Len(sent) = 1
                 /\ response = Unbound
                 /\ uncaught \in CollaboratorFaults
              \/ /\ Responded                 \* while reading line 23's argument
                 /\ ~ReadableFirstChoice(response)
                 /\ arg = Unbound
                 /\ uncaught \in {IndexError, AttributeError}

(* a run that ended on the AttributeError of a first choice with no message *)
C8_Witness ==
    /\ Terminated
    /\ exitCode = Exited(1)
    /\ Responded
    /\ Len(response.choices) >= 1
    /\ uncaught = AttributeError

(* C9: every step happens at most once and in order: the constructor is    *)
(* called with the credential before anything is sent, the request is sent *)
(* only with a client and before any response exists, a response is bound  *)
(* only after the request and from a returned value, the print argument is *)
(* read only from a bound response, and standard output is written only    *)
(* once and only after the response was returned and read.                 *)
C9_StepOrder ==
    [][ /\ (ctorArgs' # ctorArgs =>
              /\ ctorArgs = << >>
              /\ ctorArgs' = << [api_key |-> Credential] >>
              /\ client = Unbound
              /\ sent = << >>)
        /\ (client' # client =>
              /\ client = Unbound
              /\ Len(ctorArgs) = 1
              /\ client'.api_key = Credential
              /\ sent = << >>)
        /\ (sent' # sent =>
              /\ sent = << >>
              /\ Len(sent') = 1
              /\ client # Unbound
              /\ response = Unbound
              /\ stdout = << >>)
        /\ (response' # response =>
              /\ response = Unbound
              /\ Len(sent) = 1
              /\ reply = Return(response')
              /\ stdout = << >>)
        /\ (arg' # arg =>
              /\ arg = Unbound
              /\ Responded
              /\ stdout = << >>)
        /\ (stdout' # stdout =>
              /\ stdout = << >>
              /\ Responded
              /\ arg # Unbound
              /\ Len(sent) = 1)
      ]_vars

(* all four steps have happened *)
C9_Witness ==
    /\ Terminated
    /\ exitCode = Exited(0)
    /\ Len(ctorArgs) = 1
    /\ Len(sent) = 1
    /\ Responded
    /\ stdout # << >>

(* What a run that receives r ends with, from the evaluation of line 23 *)
RunOutcome(r) ==
    LET e == FirstChoiceContent(r)
    IN  IF e.tag = "raise"
        THEN [stdout |-> << >>, exit |-> Exited(1)]
        ELSE [stdout |-> PrintedText(e.value), exit |-> Exited(0)]

(* The outcomes of all responses whose first choice's message has content c *)
OutcomesFor ==
    [c \in Contents |->
        {RunOutcome(r) : r \in {q \in Responses :
                                   ReadableFirstChoice(q) /\ FirstContent(q) = c}}]

(* C10: all responses that agree on choices[0].message.content, whatever   *)
(* their further choices, finish reasons, token usage and id, lead to one  *)
(* and the same standard output and exit status, and a terminated run that *)
(* received one of them ended with exactly that output and status.         *)
C10_OnlyFirstContent ==
    /\ \A c \in Contents : Cardinality(OutcomesFor[c]) = 1
    /\ (Terminated /\ Responded /\ ReadableFirstChoice(response)) =>
          OutcomesFor[FirstContent(response)] = {[stdout |-> stdout, exit |-> exitCode]}

(* a run ended on a response with a second choice of different content,   *)
(* a nonzero token count and the finish reason length                     *)
C10_Witness ==
    /\ Terminated
    /\ Responded
    /\ Len(response.choices) = 2
    /\ ReadableFirstChoice(response)
    /\ response.choices[2].message # response.choices[1].message
    /\ response.choices[1].finish_reason = "length"
    /\ response.usage.total_tokens > 0
    /\ stdout = TextOf(FirstContent(response)) \o <<"\n">>

====
